---- MODULE Spec2Model ----
(***************************************************************************)
(* Model of the wave sample generation engine of soundwave-creator:         *)
(* wave_generator.WaveSoundGenerator (option resolution, range             *)
(* calculation, the five wave formulas, sample normalization and the       *)
(* sample loop of get_wave_sound_samples) with wave_math's helpers, and    *)
(* of wave_creator.create_sound_file, which mixes the sequences a caller   *)
(* collected, as soundwave.main does.                                      *)
(*                                                                         *)
(* Numbers.  Python ints and floats are modelled as exact rationals        *)
(* <<n, d>> with d > 0, kept in lowest terms.  int() is truncation toward  *)
(* zero, round() is round-half-to-even, as in Python 3.  math.sin is the   *)
(* one transcendental function; it is tabulated to four decimals.          *)
(***************************************************************************)
EXTENDS Integers, Sequences, FiniteSets, TLC

VARIABLES
    self_wave_options,      \* WaveSoundGenerator._wave_options
    pc,                     \* "idle" | "loop" | "returned" | "raised"
    duration,               \* argument of get_wave_sound_samples
    sound_wave_type,        \* argument of get_wave_sound_samples
    wave_specific_options,  \* argument of get_wave_sound_samples
    wave_options,           \* merged options captured by the wave function
    volume_adjustment,      \* captured by the wave function
    min_sample_value,       \* captured by the wave function
    max_sample_value,       \* captured by the wave function
    sample_value_range,     \* captured by the wave function
    samples_per_cycle,      \* captured by the wave function
    num_samples,            \* local of get_wave_sound_samples
    sample_frame,           \* loop variable of get_wave_sound_samples
    sound_samples,          \* array.array('h') being filled
    error,                  \* exception that ended the call, or "none"
    trace,                  \* per frame: the locals of the formula and normalizer
    channels_data,          \* soundwave.main: the sequences the caller collected
    channel_calls,          \* per collected sequence: the call that returned it
    sound_file              \* what create_sound_file did, once it was called

vars == <<self_wave_options, pc, duration, sound_wave_type,
          wave_specific_options, wave_options, volume_adjustment,
          min_sample_value, max_sample_value, sample_value_range,
          samples_per_cycle, num_samples, sample_frame, sound_samples,
          error, trace, channels_data, channel_calls, sound_file>>

\* The caller's variables, which a generation call does not touch.
caller_vars == <<channels_data, channel_calls, sound_file>>

(***************************************************************************)
(* Exact rational arithmetic standing for Python's int/float arithmetic.   *)
(***************************************************************************)
Abs(n) == IF n < 0 THEN -n ELSE n

RECURSIVE Gcd(_, _)
Gcd(a, b) == IF b = 0 THEN a ELSE Gcd(b, a % b)

\* <<n, d>> in lowest terms with a positive denominator.
Rat(n, d) ==
    LET s == IF d < 0 THEN -1 ELSE 1
        g == Gcd(Abs(n), Abs(d))
    IN  <<(s * n) \div g, (s * d) \div g>>

FromInt(n) == <<n, 1>>
RAdd(a, b) == Rat(a[1] * b[2] + b[1] * a[2], a[2] * b[2])
RSub(a, b) == Rat(a[1] * b[2] - b[1] * a[2], a[2] * b[2])
RMul(a, b) == Rat(a[1] * b[1], a[2] * b[2])
RDiv(a, b) == Rat(a[1] * b[2], a[2] * b[1])
RGe(a, b) == a[1] * b[2] >= b[1] * a[2]
RLe(a, b) == a[1] * b[2] <= b[1] * a[2]
RLt(a, b) == a[1] * b[2] < b[1] * a[2]
RIsZero(a) == a[1] = 0

\* Python int(x): truncation toward zero.
TruncToInt(a) == IF a[1] >= 0 THEN a[1] \div a[2] ELSE -((-a[1]) \div a[2])

\* math.floor(x), used only to state claims.
FloorToInt(a) == a[1] \div a[2]

\* Python 3 round(x): to the nearest integer, ties to the even one.
RoundHalfEven(a) ==
    LET f == a[1] \div a[2]
        twice == 2 * (a[1] - f * a[2])
    IN  IF twice < a[2] THEN f
        ELSE IF twice > a[2] THEN f + 1
        ELSE IF f % 2 = 0 THEN f ELSE f + 1

(***************************************************************************)
(* wave_settings (imported by wave_generator; 16-bit signed samples).      *)
(***************************************************************************)
BYTES_OF_DATA == 2
SIGNED_INTEGER == TRUE

(***************************************************************************)
(* wave_math                                                               *)
(***************************************************************************)
get_max_value_from_bytes(bytes_size, signed) ==
    LET bits_size == IF signed THEN bytes_size * 8 - 1 ELSE bytes_size * 8
    IN  2 ^ bits_size

get_min_value_from_bytes(bytes_size, signed) ==
    IF ~signed THEN 0 ELSE -get_max_value_from_bytes(bytes_size, signed)

\* Mutant: the upper bound is not enforced.
limit_value_to_range_no_max(value, min_value, max_value) ==
    IF RLe(value, min_value) THEN min_value ELSE value

limit_value_to_range(value, min_value, max_value) ==
    IF RGe(value, max_value) THEN max_value
    ELSE IF RLe(value, min_value) THEN min_value
    ELSE value

(***************************************************************************)
(* wave_generator: options.                                                *)
(* An option mapping is a function from keys to values; an argument that   *)
(* may be None is [is_none, items].  Values: numbers are rationals, the    *)
(* transformer is the name of a function of TransformerNames, the custom   *)
(* formula is a template, i.e. a sequence of tokens.                       *)
(***************************************************************************)
AMPLITUDE == "amplitude"
AMPLITUDE_ADJUSTMENT == "amplitude_adjustment"
CUSTOM_WAVE_FORMULA == "custom_wave_formula"
DEBUG == "debug"
FREQUENCY == "frequency"
MAX_WAVE_VALUE == "max_wave_value"
MIN_WAVE_VALUE == "min_wave_value"
SAMPLE_RATE == "sample_rate"
VOLUME == "volume"
WAVE_TRANSFORMER == "wave_transformer"

SoundWaveOption ==
    {AMPLITUDE, AMPLITUDE_ADJUSTMENT, CUSTOM_WAVE_FORMULA, DEBUG, FREQUENCY,
     MAX_WAVE_VALUE, MIN_WAVE_VALUE, SAMPLE_RATE, VOLUME, WAVE_TRANSFORMER}

SIN_WAVE == "sin"
X2_WAVE == "x**2"
RANDOM_WAVE == "random"
SAWTOOTH_WAVE == "sawtooth"
CUSTOM_WAVE == "custom"

SoundWaveType == {SIN_WAVE, X2_WAVE, RANDOM_WAVE, SAWTOOTH_WAVE, CUSTOM_WAVE}

\* Template tokens.  A placeholder is a token of kind "{name}".
Tok(k) == [kind |-> k, val |-> 0]
Num(n) == [kind |-> "num", val |-> n]

DEFAULT_WAVE_OPTIONS ==
    [k \in SoundWaveOption |->
        CASE k = AMPLITUDE ->
                Rat(get_max_value_from_bytes(BYTES_OF_DATA, TRUE), 2)
          [] k = AMPLITUDE_ADJUSTMENT -> FromInt(1)
          [] k = CUSTOM_WAVE_FORMULA -> <<>>
          [] k = DEBUG -> FALSE
          [] k = FREQUENCY -> FromInt(440)
          [] k = MAX_WAVE_VALUE ->
                FromInt(get_max_value_from_bytes(BYTES_OF_DATA, SIGNED_INTEGER) - 1)
          [] k = MIN_WAVE_VALUE ->
                FromInt(get_min_value_from_bytes(BYTES_OF_DATA, SIGNED_INTEGER) + 1)
          [] k = SAMPLE_RATE -> FromInt(44100)
          [] k = VOLUME -> FromInt(1)
          [] k = WAVE_TRANSFORMER -> "identity"]

EmptyOptions == [k \in {} |-> FALSE]
NoneOptions == [is_none |-> TRUE, items |-> EmptyOptions]
SomeOptions(m) == [is_none |-> FALSE, items |-> m]

\* Python's `wave_options or {}`.
OrEmpty(o) == IF o.is_none THEN EmptyOptions ELSE o.items

\* dict.update(other) on a copy of base.
DictUpdate(base, other) ==
    [k \in DOMAIN base \cup DOMAIN other |->
        IF k \in DOMAIN other THEN other[k] ELSE base[k]]

\* WaveSoundGenerator.__init__: self._wave_options = wave_options or {}
init_wave_options(o) == OrEmpty(o)

\* Mutant: the generator-level options are applied last and win.
get_merged_wave_options_generator_wins(self_options, o) ==
    DictUpdate(DictUpdate(EmptyOptions, OrEmpty(o)), self_options)

get_merged_wave_options(self_options, o) ==
    DictUpdate(DictUpdate(EmptyOptions, self_options), OrEmpty(o))

\* The two ValueErrors wave_generator raises.
UNKNOWN_OPTION == "ValueError: Unknown sound wave feature"
UNKNOWN_WAVE_TYPE == "ValueError: Unknown wave type"

\* Mutant: an unrecognized key anywhere in the mapping makes the lookup fail.
get_wave_option_value_strict(options, option) ==
    IF option \notin DOMAIN DEFAULT_WAVE_OPTIONS
       \/ DOMAIN options \ DOMAIN DEFAULT_WAVE_OPTIONS # {}
    THEN [raised |-> TRUE, value |-> FALSE]
    ELSE [raised |-> FALSE,
          value |-> IF option \in DOMAIN options THEN options[option]
                    ELSE DEFAULT_WAVE_OPTIONS[option]]

\* [raised |-> TRUE] stands for ValueError('Unknown sound wave feature').
get_wave_option_value(options, option) ==
    IF option \notin DOMAIN DEFAULT_WAVE_OPTIONS
    THEN [raised |-> TRUE, value |-> FALSE]
    ELSE [raised |-> FALSE,
          value |-> IF option \in DOMAIN options THEN options[option]
                    ELSE DEFAULT_WAVE_OPTIONS[option]]

get_debug_mode(options) == get_wave_option_value(options, DEBUG).value

get_custom_wave_formula(options) ==
    get_wave_option_value(options, CUSTOM_WAVE_FORMULA).value

get_volume(options) == get_wave_option_value(options, VOLUME).value

\* Mutant: math.floor instead of int().
get_wave_amplitude_floor(options) ==
    FloorToInt(RMul(get_wave_option_value(options, AMPLITUDE).value,
                    get_wave_option_value(options, AMPLITUDE_ADJUSTMENT).value))

get_wave_amplitude(options) ==
    LET wave_amplitude == get_wave_option_value(options, AMPLITUDE).value
        wave_adjustment ==
            get_wave_option_value(options, AMPLITUDE_ADJUSTMENT).value
    IN  TruncToInt(RMul(wave_amplitude, wave_adjustment))

IntMax(a, b) == IF a >= b THEN a ELSE b
IntMin(a, b) == IF a <= b THEN a ELSE b

get_min_wave_value(options) ==
    LET wave_amplitude == get_wave_amplitude(options)
        min_allowed_value == DEFAULT_WAVE_OPTIONS[MIN_WAVE_VALUE][1]
    IN  IntMax(-wave_amplitude, min_allowed_value)

get_max_wave_value(options) ==
    LET wave_amplitude == get_wave_amplitude(options)
        max_allowed_value == DEFAULT_WAVE_OPTIONS[MAX_WAVE_VALUE][1]
    IN  IntMin(wave_amplitude, max_allowed_value)

get_wave_value_range(options) ==
    Abs(get_min_wave_value(options)) + Abs(get_max_wave_value(options))

get_wave_frequency(options) == get_wave_option_value(options, FREQUENCY).value

get_wave_sample_rate(options) ==
    get_wave_option_value(options, SAMPLE_RATE).value

get_wave_transformer(options) ==
    get_wave_option_value(options, WAVE_TRANSFORMER).value

\* [raised |-> TRUE] stands for ZeroDivisionError at
\* `wave_sample_rate / wave_frequency`.
get_samples_per_cycle(options) ==
    LET wave_frequency == get_wave_frequency(options)
        wave_sample_rate == get_wave_sample_rate(options)
    IN  IF RIsZero(wave_frequency)
        THEN [raised |-> TRUE, value |-> 0]
        ELSE LET spc == RoundHalfEven(RDiv(wave_sample_rate, wave_frequency))
             IN  [raised |-> FALSE, value |-> IF spc >= 1 THEN spc ELSE 1]

\* Mutant: the phase wraps one frame after the cycle's end.
get_sample_frame_frequency_off_by_one(frame, options) ==
    LET spc == get_samples_per_cycle(options).value + 1
    IN  Rat(frame % spc, spc)

\* (sample_frame % samples_per_cycle) / samples_per_cycle
get_sample_frame_frequency(frame, options) ==
    LET spc == get_samples_per_cycle(options).value
    IN  Rat(frame % spc, spc)

(***************************************************************************)
(* math.sin(2 * math.pi * phase), to four decimals, for the phases         *)
(* x / samples_per_cycle the model reaches (samples_per_cycle in 1..6, 8). *)
(* sin(2 pi / 2) is 1.2e-16 in floating point; it is tabulated as 0, which *)
(* gives the same sample after int().                                      *)
(***************************************************************************)
sin_2pi(phase) ==
    LET v == CASE phase = <<0, 1>> -> 0
               [] phase = <<1, 2>> -> 0
               [] phase = <<1, 3>> -> 8660
               [] phase = <<2, 3>> -> -8660
               [] phase = <<1, 4>> -> 10000
               [] phase = <<3, 4>> -> -10000
               [] phase = <<1, 5>> -> 9511
               [] phase = <<2, 5>> -> 5878
               [] phase = <<3, 5>> -> -5878
               [] phase = <<4, 5>> -> -9511
               [] phase = <<1, 6>> -> 8660
               [] phase = <<5, 6>> -> -8660
               [] phase = <<1, 8>> -> 7071
               [] phase = <<3, 8>> -> 7071
               [] phase = <<5, 8>> -> -7071
               [] phase = <<7, 8>> -> -7071
    IN  Rat(v, 10000)

(***************************************************************************)
(* str.format and eval for the custom formula.  The formatted text is the  *)
(* template's token sequence with every placeholder replaced by the tokens *)
(* of str(value): a negative value prints as "-" followed by its           *)
(* magnitude.  eval is Python's expression grammar over + - * / ( ) and    *)
(* integer literals; "/" is true division.  Python compiles before it      *)
(* runs, so a syntax error anywhere wins over a division by zero.          *)
(* eval runs in the scope of custom_sound_wave, where the module's imports *)
(* are visible: a template may call them.  RANDINT_CALL is such a call,    *)
(* one token of the template; it evaluates to what the random source       *)
(* gives, a value of RandintValues.                                        *)
(***************************************************************************)
RANDINT_CALL == "random.randint(0, 1)"
RandintValues == 0..1

\* The outcome of the calls in the text: the value each evaluates to.
Resolve(toks, random_sample) ==
    [i \in DOMAIN toks |->
        IF toks[i].kind = RANDINT_CALL
        THEN [kind |-> RANDINT_CALL, val |-> random_sample] ELSE toks[i]]

Placeholders ==
    {"{x}", "{min_sample}", "{max_sample}", "{sample_range}",
     "{samples_per_cycle}"}

StrTokens(n) == IF n < 0 THEN <<Tok("-"), Num(-n)>> ELSE <<Num(n)>>

RECURSIVE format(_, _)
format(template, values) ==
    IF template = <<>> THEN <<>>
    ELSE LET t == Head(template)
             head == IF t.kind \in Placeholders
                     THEN StrTokens(values[t.kind]) ELSE <<t>>
         IN  head \o format(Tail(template), values)

SyntaxFail == [syn |-> FALSE, zde |-> FALSE, val |-> <<0, 1>>, pos |-> 0]

BinOp(op, l, r) ==
    LET zde == l.zde \/ r.zde \/ (op = "/" /\ RIsZero(r.val))
    IN  [syn |-> TRUE, zde |-> zde, pos |-> r.pos,
         val |-> IF zde THEN <<0, 1>>
                 ELSE CASE op = "+" -> RAdd(l.val, r.val)
                        [] op = "-" -> RSub(l.val, r.val)
                        [] op = "*" -> RMul(l.val, r.val)
                        [] op = "/" -> RDiv(l.val, r.val)]

RECURSIVE ParseExpr(_, _), ParseExprRest(_, _), ParseTerm(_, _)
RECURSIVE ParseTermRest(_, _), ParseFactor(_, _)

ParseFactor(toks, pos) ==
    IF pos > Len(toks) THEN SyntaxFail
    ELSE LET t == toks[pos]
         IN  CASE t.kind \in {"num", RANDINT_CALL} ->
                    [syn |-> TRUE, zde |-> FALSE, val |-> FromInt(t.val),
                     pos |-> pos + 1]
               [] t.kind = "-" ->
                    LET r == ParseFactor(toks, pos + 1)
                    IN  IF r.syn
                        THEN [r EXCEPT !.val = RSub(<<0, 1>>, r.val)] ELSE r
               [] t.kind = "+" -> ParseFactor(toks, pos + 1)
               [] t.kind = "(" ->
                    LET r == ParseExpr(toks, pos + 1)
                    IN  IF r.syn /\ r.pos <= Len(toks)
                           /\ toks[r.pos].kind = ")"
                        THEN [r EXCEPT !.pos = r.pos + 1]
                        ELSE SyntaxFail
               [] OTHER -> SyntaxFail

ParseTermRest(toks, left) ==
    IF ~left.syn \/ left.pos > Len(toks) THEN left
    ELSE LET t == toks[left.pos]
         IN  IF t.kind \in {"*", "/"}
             THEN LET r == ParseFactor(toks, left.pos + 1)
                  IN  IF r.syn
                      THEN ParseTermRest(toks, BinOp(t.kind, left, r))
                      ELSE r
             ELSE left

ParseTerm(toks, pos) == ParseTermRest(toks, ParseFactor(toks, pos))

ParseExprRest(toks, left) ==
    IF ~left.syn \/ left.pos > Len(toks) THEN left
    ELSE LET t == toks[left.pos]
         IN  IF t.kind \in {"+", "-"}
             THEN LET r == ParseTerm(toks, left.pos + 1)
                  IN  IF r.syn
                      THEN ParseExprRest(toks, BinOp(t.kind, left, r))
                      ELSE r
             ELSE left

ParseExpr(toks, pos) == ParseExprRest(toks, ParseTerm(toks, pos))

\* eval(text): [error, value]
eval(toks) ==
    LET r == ParseExpr(toks, 1)
    IN  IF ~r.syn \/ r.pos # Len(toks) + 1
        THEN [error |-> "SyntaxError", value |-> <<0, 1>>]
        ELSE IF r.zde
        THEN [error |-> "ZeroDivisionError", value |-> <<0, 1>>]
        ELSE [error |-> "none", value |-> r.val]

(***************************************************************************)
(* Caller-supplied wave transformers (Callable[[int], int]).               *)
(*   identity  lambda x: x             the default                         *)
(*   div5      lambda x: int(x / 5)    the one soundwave.py passes         *)
(*   double    lambda x: 2 * x         one that leaves [min, max]          *)
(***************************************************************************)
TransformerNames == {"identity", "div5", "double"}

apply_transformer(name, x) ==
    CASE name = "identity" -> x
      [] name = "div5" -> TruncToInt(Rat(x, 5))
      [] name = "double" -> 2 * x

(***************************************************************************)
(* get_wave_function: the normalizer and the five formulas.  Each takes    *)
(* the values the closure captured as a record c.                          *)
(***************************************************************************)
\* Mutant: the value is limited before the volume is applied.
normalize_sample_value_limit_first(c, raw) ==
    LET limited == limit_value_to_range(
                       raw, FromInt(c.min_sample_value),
                       FromInt(c.max_sample_value))
        scaled == RMul(limited, c.volume_adjustment)
        truncated == TruncToInt(scaled)
    IN  [raw |-> raw, scaled |-> scaled, limited |-> limited,
         truncated |-> truncated,
         final |-> apply_transformer(
                       get_wave_transformer(c.wave_options), truncated)]

\* The locals of _normalize_sample_value after each of its four steps.
normalize_sample_value(c, raw) ==
    LET scaled == RMul(raw, c.volume_adjustment)
        limited == limit_value_to_range(
                       scaled, FromInt(c.min_sample_value),
                       FromInt(c.max_sample_value))
        truncated == TruncToInt(limited)
        custom_transformer == get_wave_transformer(c.wave_options)
    IN  [raw |-> raw, scaled |-> scaled, limited |-> limited,
         truncated |-> truncated,
         final |-> apply_transformer(custom_transformer, truncated)]

\* Each formula returns [error, value]: the raw sample value, or the
\* exception the formula raises.
Raw(v) == [error |-> "none", value |-> v]
Raise(e) == [error |-> e, value |-> <<0, 1>>]

sin_sound_wave(c, frame) ==
    LET sample_frequency == get_sample_frame_frequency(frame, c.wave_options)
    IN  Raw(RMul(FromInt(c.max_sample_value), sin_2pi(sample_frequency)))

\* Mutant: the ramp wraps at the cycle length instead of the value range.
sawtooth_sound_wave_by_cycle(c, frame) ==
    LET spike_cycle == frame \div c.samples_per_cycle
    IN  Raw(FromInt(frame + c.min_sample_value
                    - spike_cycle * c.samples_per_cycle))

sawtooth_sound_wave(c, frame) ==
    IF c.sample_value_range = 0 THEN Raise("ZeroDivisionError")
    ELSE LET spike_cycle ==
                 TruncToInt(Rat(frame, c.sample_value_range))
         IN  Raw(FromInt(frame + c.min_sample_value
                         - spike_cycle * c.sample_value_range))

\* random.randint(a, b) raises ValueError when a > b.
random_sound_wave(c, frame, random_sample) ==
    IF c.min_sample_value > c.max_sample_value THEN Raise("ValueError")
    ELSE Raw(FromInt(random_sample))

\* Mutant: the parabola opens downward from max_sample_value at the
\* vertex.
x2_sound_wave_inverted(c, frame) ==
    LET spc == FromInt(c.samples_per_cycle)
        a == RDiv(FromInt(4 * (c.min_sample_value - c.max_sample_value)),
                  RMul(spc, spc))
        b == RDiv(RSub(<<0, 1>>, spc), FromInt(2))
        cc == FromInt(c.max_sample_value)
        x == FromInt(frame % c.samples_per_cycle)
        xb == RAdd(x, b)
    IN  Raw(RAdd(RMul(a, RMul(xb, xb)), cc))

x2_sound_wave(c, frame) ==
    LET spc == FromInt(c.samples_per_cycle)
        a == RDiv(FromInt(4 * (c.max_sample_value - c.min_sample_value)),
                  RMul(spc, spc))
        b == RDiv(RSub(<<0, 1>>, spc), FromInt(2))
        cc == FromInt(c.min_sample_value)
        x == FromInt(frame % c.samples_per_cycle)
        xb == RAdd(x, b)
    IN  Raw(RAdd(RMul(a, RMul(xb, xb)), cc))

custom_sound_wave(c, frame, random_sample) ==
    LET custom_formula == get_custom_wave_formula(c.wave_options)
        replaced_formula ==
            format(custom_formula,
                   [k \in Placeholders |->
                       CASE k = "{x}" -> frame
                         [] k = "{min_sample}" -> c.min_sample_value
                         [] k = "{max_sample}" -> c.max_sample_value
                         [] k = "{sample_range}" -> c.sample_value_range
                         [] k = "{samples_per_cycle}" -> c.samples_per_cycle])
    IN  eval(Resolve(replaced_formula, random_sample))

\* Lines 298-423 of get_wave_function: the values the returned closure
\* captures, or the exception raised before a closure is returned.
get_wave_function(self_options, type, o) ==
    LET options == get_merged_wave_options(self_options, o)
        unknown_option ==
            \E k \in {DEBUG, VOLUME, AMPLITUDE, AMPLITUDE_ADJUSTMENT,
                      FREQUENCY, SAMPLE_RATE} :
                get_wave_option_value(options, k).raised
        err == IF unknown_option THEN UNKNOWN_OPTION
               ELSE IF get_samples_per_cycle(options).raised
               THEN "ZeroDivisionError"
               ELSE IF type \notin SoundWaveType THEN UNKNOWN_WAVE_TYPE
               ELSE "none"
    IN  IF err # "none" THEN [error |-> err]
        ELSE [error |-> "none",
              wave_options |-> options,
              volume_adjustment |-> get_volume(options),
              min_sample_value |-> get_min_wave_value(options),
              max_sample_value |-> get_max_wave_value(options),
              sample_value_range |-> get_wave_value_range(options),
              samples_per_cycle |-> get_samples_per_cycle(options).value]

\* The sample the closure for `type` computes for `frame`:
\* [error, value] of the formula, before normalization.
wave_formula(c, type, frame, random_sample) ==
    CASE type = SIN_WAVE -> sin_sound_wave(c, frame)
      [] type = SAWTOOTH_WAVE -> sawtooth_sound_wave(c, frame)
      [] type = RANDOM_WAVE -> random_sound_wave(c, frame, random_sample)
      [] type = X2_WAVE -> x2_sound_wave(c, frame)
      [] type = CUSTOM_WAVE -> custom_sound_wave(c, frame, random_sample)

\* array.array('h').append(v) raises OverflowError outside a signed short.
array_h_fits(v) == v >= -(2 ^ 15) /\ v <= 2 ^ 15 - 1

\* Mutant: round() instead of int().
get_num_samples_round(d, options) ==
    RoundHalfEven(RMul(d, get_wave_sample_rate(options)))

\* num_samples = int(duration * sample_rate)
get_num_samples(d, options) ==
    TruncToInt(RMul(d, get_wave_sample_rate(options)))

(***************************************************************************)
(* wave_creator.  create_sound_file(duration, channels_data, file_options)  *)
(* as the record of what it did: whether the file was opened (wave.open    *)
(* truncates it), the parameters set, the frames handed to writeframes,    *)
(* and the exception that ended it, or "none".                             *)
(***************************************************************************)
COMPRESSION_TYPE == "compression_type"
COMPRESSION_NAME == "compression_name"
FILE_NAME == "file_name"

SoundFileOption == {COMPRESSION_TYPE, COMPRESSION_NAME, FILE_NAME}

DEFAULT_FILE_OPTIONS ==
    [k \in SoundFileOption |->
        CASE k = COMPRESSION_TYPE -> "NONE"
          [] k = COMPRESSION_NAME -> "Uncompressed"
          [] k = FILE_NAME -> "sound.wav"]

get_file_option_value(file_options, option) ==
    IF option \notin DOMAIN DEFAULT_FILE_OPTIONS
    THEN [raised |-> TRUE, value |-> FALSE]
    ELSE [raised |-> FALSE,
          value |-> IF option \in DOMAIN file_options
                    THEN file_options[option]
                    ELSE DEFAULT_FILE_OPTIONS[option]]

\* create_sound_file was not called.
NoFile ==
    [called |-> FALSE, opened |-> FALSE, file_name |-> "",
     params |-> <<>>, frames |-> <<>>, written |-> FALSE, error |-> "none"]

NO_CHANNELS == "ValueError: Must provide samples for at least one channel."

\* Wave_write.setparams rejects a frame rate that is not positive.
BAD_FRAME_RATE == "wave.Error: bad frame rate"

\* Python's truthiness of channels_data: a list is false when empty.
IsEmpty(channels) == Len(channels) = 0

\* The keyframes the mixing loop gets through before channels_data
\* [channel][keyframe] raises IndexError: all number_samples of them when
\* no channel is shorter than the first.
MixableFrames(channels) ==
    LET number_samples == Len(channels[1])
        shortest == CHOOSE n \in {Len(channels[c]) : c \in DOMAIN channels} :
                        \A c \in DOMAIN channels : n <= Len(channels[c])
    IN  IF shortest < number_samples THEN shortest ELSE number_samples

RECURSIVE SumAt(_, _, _)
SumAt(channels, keyframe, channel) ==
    IF channel = 0 THEN 0
    ELSE SumAt(channels, keyframe, channel - 1) + channels[channel][keyframe]

\* mixed_sound_frame = int(sample_total / number_channels)
mixed_sound_frame(channels, keyframe) ==
    TruncToInt(Rat(SumAt(channels, keyframe, Len(channels)), Len(channels)))

create_sound_file(d, channels, file_options_arg) ==
    IF IsEmpty(channels)
    THEN [NoFile EXCEPT !.called = TRUE, !.error = NO_CHANNELS]
    ELSE
    LET file_options == OrEmpty(file_options_arg)
        file_name == get_file_option_value(file_options, FILE_NAME).value
        number_channels == Len(channels)
        number_samples == Len(channels[1])
        opened == [NoFile EXCEPT !.called = TRUE, !.opened = TRUE,
                                 !.file_name = file_name]
    IN  IF d = 0 THEN [opened EXCEPT !.error = "ZeroDivisionError"]
        ELSE
        LET sample_rate == TruncToInt(Rat(number_samples, d))
            sound_params ==
                <<number_channels, BYTES_OF_DATA, sample_rate, number_samples,
                  get_file_option_value(file_options, COMPRESSION_TYPE).value,
                  get_file_option_value(file_options, COMPRESSION_NAME).value>>
            configured == [opened EXCEPT !.params = sound_params]
        IN  IF sample_rate <= 0
            THEN [opened EXCEPT !.error = BAD_FRAME_RATE]
            ELSE IF MixableFrames(channels) < number_samples
            THEN [configured EXCEPT !.error = "IndexError"]
            ELSE [configured EXCEPT
                     !.frames = [keyframe \in 1..number_samples |->
                                    mixed_sound_frame(channels, keyframe)],
                     !.written = TRUE]

(***************************************************************************)
(* Inputs.  Durations are multiples of 1/2 second (a sample rate of 0      *)
(* gives the empty sequence).  Option values:                              *)
(* amplitudes that are zero, small, negative and beyond the 16-bit range;  *)
(* frequencies and sample rates whose quotient is 0, a tie (1/2, 3/2,      *)
(* 5/2), whole, or a cycle of 3 frames that 5 samples run through more     *)
(* than once; the formula soundwave.py passes and others.                  *)
(***************************************************************************)
MaxSamples == 5
MaxDurationHalves == 2
MaxRandomSpan == 2

Durations == {Rat(h, 2) : h \in 1..MaxDurationHalves}

WaveTypeChoices == SoundWaveType \cup {"triangle"}

FORMULA_SOUNDWAVE ==
    <<Tok("("), Tok("{x}"), Tok("+"), Tok("{min_sample}"), Tok(")"),
      Tok("/"), Tok("{max_sample}")>>
FORMULA_RAMP ==
    <<Tok("{x}"), Tok("*"), Tok("{sample_range}"), Tok("-"),
      Tok("{samples_per_cycle}")>>
FORMULA_X == <<Tok("{x}")>>
FORMULA_BROKEN == <<Tok("{x}"), Tok("/")>>
FORMULA_RANDINT == <<Tok("{x}"), Tok("+"), Tok(RANDINT_CALL)>>

OptionValues(k) ==
    CASE k = AMPLITUDE ->
            {FromInt(0), FromInt(1), FromInt(-3), FromInt(40000),
             FromInt(-40000)}
      [] k = AMPLITUDE_ADJUSTMENT -> {Rat(1, 2)}
      [] k = CUSTOM_WAVE_FORMULA ->
            {FORMULA_SOUNDWAVE, FORMULA_RAMP, FORMULA_X, FORMULA_BROKEN,
             FORMULA_RANDINT}
      [] k = DEBUG -> {TRUE}
      [] k = FREQUENCY -> {FromInt(0), FromInt(1), Rat(3, 2), FromInt(2)}
      [] k = MAX_WAVE_VALUE -> {FromInt(100)}
      [] k = MIN_WAVE_VALUE -> {FromInt(-100)}
      [] k = SAMPLE_RATE -> {FromInt(0), FromInt(3), FromInt(4), FromInt(5)}
      [] k = VOLUME -> {Rat(1, 2), FromInt(2), FromInt(-1)}
      [] k = WAVE_TRANSFORMER -> {"div5", "double"}
      [] k = "bogus" -> {TRUE}

OptionKeys == SoundWaveOption \cup {"bogus"}

SingleOptions ==
    UNION {{[kk \in {k} |-> v] : v \in OptionValues(k)} : k \in OptionKeys}

\* Per-call mappings: None, {}, and every mapping of one or two keys.
CallOptionChoices ==
    {NoneOptions, SomeOptions(EmptyOptions)}
    \cup {SomeOptions(DictUpdate(a, b)) : a \in SingleOptions, b \in SingleOptions}

\* Generator-level mappings: None, {}, and every mapping of one key.
GeneratorOptionChoices ==
    {NoneOptions, SomeOptions(EmptyOptions)}
    \cup {SomeOptions(a) : a \in SingleOptions}

(***************************************************************************)
(* The state machine.                                                      *)
(***************************************************************************)
NoCall ==
    /\ duration = <<0, 1>>
    /\ sound_wave_type = "none"
    /\ wave_specific_options = NoneOptions
    /\ wave_options = EmptyOptions
    /\ volume_adjustment = <<0, 1>>
    /\ min_sample_value = 0
    /\ max_sample_value = 0
    /\ sample_value_range = 0
    /\ samples_per_cycle = 0
    /\ num_samples = 0
    /\ sample_frame = 0
    /\ sound_samples = <<>>
    /\ error = "none"
    /\ trace = <<>>

NoCallNext ==
    /\ duration' = <<0, 1>>
    /\ sound_wave_type' = "none"
    /\ wave_specific_options' = NoneOptions
    /\ wave_options' = EmptyOptions
    /\ volume_adjustment' = <<0, 1>>
    /\ min_sample_value' = 0
    /\ max_sample_value' = 0
    /\ sample_value_range' = 0
    /\ samples_per_cycle' = 0
    /\ num_samples' = 0
    /\ sample_frame' = 0
    /\ sound_samples' = <<>>
    /\ error' = "none"
    /\ trace' = <<>>

\* The caller has collected nothing and has not called create_sound_file.
NoCaller ==
    /\ channels_data = <<>>
    /\ channel_calls = <<>>
    /\ sound_file = NoFile

\* WaveSoundGenerator(wave_options)
Init ==
    /\ \E o \in GeneratorOptionChoices : self_wave_options = init_wave_options(o)
    /\ pc = "idle"
    /\ NoCall
    /\ NoCaller

\* The values the wave function of the current call captured.
Closure ==
    [wave_options |-> wave_options,
     volume_adjustment |-> volume_adjustment,
     min_sample_value |-> min_sample_value,
     max_sample_value |-> max_sample_value,
     sample_value_range |-> sample_value_range,
     samples_per_cycle |-> samples_per_cycle]

\* get_wave_sound_samples(d, type, o), up to the loop (lines 439-446).
GetWaveSoundSamples(d, type, o) ==
    /\ pc = "idle"
    /\ LET f == get_wave_function(self_wave_options, type, o)
       IN  /\ duration' = d
           /\ sound_wave_type' = type
           /\ wave_specific_options' = o
           /\ sample_frame' = 0
           /\ sound_samples' = <<>>
           /\ trace' = <<>>
           /\ error' = f.error
           /\ IF f.error # "none"
              THEN /\ pc' = "raised"
                   /\ UNCHANGED <<wave_options, volume_adjustment,
                                  min_sample_value, max_sample_value,
                                  sample_value_range, samples_per_cycle,
                                  num_samples>>
              ELSE /\ get_num_samples(d, f.wave_options) <= MaxSamples
                   /\ type = RANDOM_WAVE =>
                        f.max_sample_value - f.min_sample_value <= MaxRandomSpan
                   /\ pc' = "loop"
                   /\ wave_options' = f.wave_options
                   /\ volume_adjustment' = f.volume_adjustment
                   /\ min_sample_value' = f.min_sample_value
                   /\ max_sample_value' = f.max_sample_value
                   /\ sample_value_range' = f.sample_value_range
                   /\ samples_per_cycle' = f.samples_per_cycle
                   /\ num_samples' = get_num_samples(d, f.wave_options)
    /\ UNCHANGED <<self_wave_options, caller_vars>>

\* What the random source can give the formula of a frame: randint's
\* result for the random shape, the call's result for a custom formula
\* that calls the random source; unused otherwise.
RandomSource(c, type) ==
    IF type = RANDOM_WAVE /\ c.min_sample_value <= c.max_sample_value
    THEN c.min_sample_value..c.max_sample_value
    ELSE IF type = CUSTOM_WAVE
            /\ \E i \in DOMAIN get_custom_wave_formula(c.wave_options) :
                  get_custom_wave_formula(c.wave_options)[i].kind = RANDINT_CALL
    THEN RandintValues
    ELSE {0}

\* One iteration of `for sample_frame in range(num_samples)` (lines 447-449).
LoopStep ==
    /\ pc = "loop"
    /\ sample_frame < num_samples
    /\ \E random_sample \in RandomSource(Closure, sound_wave_type) :
         LET r == wave_formula(Closure, sound_wave_type, sample_frame,
                               random_sample)
             n == normalize_sample_value(Closure, r.value)
         IN  IF r.error # "none"
             THEN /\ pc' = "raised"
                  /\ error' = r.error
                  /\ UNCHANGED <<sample_frame, sound_samples, trace>>
             ELSE /\ trace' = Append(trace, [frame |-> sample_frame] @@ n)
                  /\ IF array_h_fits(n.final)
                     THEN /\ sound_samples' = Append(sound_samples, n.final)
                          /\ sample_frame' = sample_frame + 1
                          /\ UNCHANGED <<pc, error>>
                     ELSE /\ pc' = "raised"
                          /\ error' = "OverflowError"
                          /\ UNCHANGED <<sample_frame, sound_samples>>
    /\ UNCHANGED <<self_wave_options, duration, sound_wave_type,
                   wave_specific_options, wave_options, volume_adjustment,
                   min_sample_value, max_sample_value, sample_value_range,
                   samples_per_cycle, num_samples, caller_vars>>

\* `return sound_samples` (line 450).
Return ==
    /\ pc = "loop"
    /\ sample_frame = num_samples
    /\ pc' = "returned"
    /\ UNCHANGED <<self_wave_options, duration, sound_wave_type,
                   wave_specific_options, wave_options, volume_adjustment,
                   min_sample_value, max_sample_value, sample_value_range,
                   samples_per_cycle, num_samples, sample_frame,
                   sound_samples, error, trace, caller_vars>>

\* The caller has the samples or the exception; the call's frame is gone
\* and the generator can be called again.
Finish ==
    /\ pc \in {"returned", "raised"}
    /\ pc' = "idle"
    /\ NoCallNext
    /\ UNCHANGED <<self_wave_options, caller_vars>>

\* A caller's call: any duration, wave type and per-call options.
Call ==
    /\ pc = "idle"
    /\ \E d \in Durations, type \in WaveTypeChoices, o \in CallOptionChoices :
          GetWaveSoundSamples(d, type, o)

Next ==
    \/ Call
    \/ LoopStep
    \/ Return
    \/ Finish

Spec == Init /\ [][Next]_vars

(***************************************************************************)
(* A caller like soundwave.main: it constructs a generator, calls          *)
(* get_wave_sound_samples several times, collects the returned sequences   *)
(* in channels_data, and hands them to create_sound_file.  Unlike          *)
(* soundwave.main it may discard a result, vary the duration and pass      *)
(* per-call options, so that the collected sequences can differ in length. *)
(***************************************************************************)
MaxChannels == 2

Option(k, v) == [kk \in {k} |-> v]

MainGeneratorChoices ==
    {SomeOptions(EmptyOptions), SomeOptions(Option(WAVE_TRANSFORMER, "div5"))}

MainWaveTypes == {X2_WAVE, CUSTOM_WAVE}

MainCallOptionChoices ==
    {SomeOptions(DictUpdate(Option(SAMPLE_RATE, FromInt(r)),
                            Option(CUSTOM_WAVE_FORMULA, f))) :
        r \in {2, 3}, f \in {FORMULA_X, FORMULA_RANDINT}}

FileDurations == {0, 1, 2}

FileOptionChoices == {NoneOptions, SomeOptions(Option(FILE_NAME, "custom.wav"))}

MainInit ==
    /\ \E o \in MainGeneratorChoices : self_wave_options = init_wave_options(o)
    /\ pc = "idle"
    /\ NoCall
    /\ NoCaller

MainCall ==
    /\ pc = "idle"
    /\ ~sound_file.called
    /\ \E d \in Durations, type \in MainWaveTypes,
          o \in MainCallOptionChoices :
          GetWaveSoundSamples(d, type, o)

\* channels_data.append(the returned sequence)
Keep ==
    /\ pc = "returned"
    /\ Len(channels_data) < MaxChannels
    /\ channels_data' = Append(channels_data, sound_samples)
    /\ channel_calls' =
          Append(channel_calls,
                 [duration |-> duration,
                  sound_wave_type |-> sound_wave_type,
                  wave_specific_options |-> wave_specific_options,
                  generator_options |-> self_wave_options])
    /\ pc' = "idle"
    /\ NoCallNext
    /\ UNCHANGED <<self_wave_options, sound_file>>

\* wave_creator.create_sound_file(d, channels_data, file_options)
CreateSoundFile(d, file_options) ==
    /\ pc = "idle"
    /\ ~sound_file.called
    /\ sound_file' = create_sound_file(d, channels_data, file_options)
    /\ UNCHANGED <<self_wave_options, pc, duration, sound_wave_type,
                   wave_specific_options, wave_options, volume_adjustment,
                   min_sample_value, max_sample_value, sample_value_range,
                   samples_per_cycle, num_samples, sample_frame,
                   sound_samples, error, trace, channels_data,
                   channel_calls>>

MainNext ==
    \/ MainCall
    \/ LoopStep
    \/ Return
    \/ Finish
    \/ Keep
    \/ \E d \in FileDurations, file_options \in FileOptionChoices :
          CreateSoundFile(d, file_options)

MainSpec == MainInit /\ [][MainNext]_vars

(***************************************************************************)
(* Properties.                                                             *)
(***************************************************************************)
InCall == pc \in {"loop", "returned", "raised"}
Captured == pc \in {"loop", "returned"} \/ (pc = "raised" /\ wave_options # EmptyOptions)

\* The precedence rule, written out: per-call, else generator-level, else
\* the default.
ResolvedOption(k) ==
    IF ~wave_specific_options.is_none
       /\ k \in DOMAIN wave_specific_options.items
    THEN wave_specific_options.items[k]
    ELSE IF k \in DOMAIN self_wave_options THEN self_wave_options[k]
    ELSE DEFAULT_WAVE_OPTIONS[k]

ResolvedAmplitudeProduct ==
    RMul(ResolvedOption(AMPLITUDE), ResolvedOption(AMPLITUDE_ADJUSTMENT))

\* C1: a call that returns, returns floor(duration * sample_rate) samples,
\* the sample of frame i at position i; and a call with a supported shape
\* (a well-formed formula for the custom one), a non-zero frequency, a
\* positive effective amplitude and a transformer that stays in the
\* 16-bit range does return.
C1_SampleCount ==
    /\ pc = "returned" =>
        /\ Len(sound_samples)
             = FloorToInt(RMul(duration, ResolvedOption(SAMPLE_RATE)))
        /\ Len(trace) = Len(sound_samples)
        /\ \A i \in 1..Len(sound_samples) :
              /\ trace[i].frame = i - 1
              /\ sound_samples[i] = trace[i].final
              /\ RandomSource(Closure, sound_wave_type) = {0} =>
                    sound_samples[i]
                      = normalize_sample_value(
                            Closure,
                            wave_formula(Closure, sound_wave_type, i - 1, 0).value
                        ).final
    /\ ( /\ pc = "raised"
         /\ sound_wave_type \in SoundWaveType
         /\ sound_wave_type = CUSTOM_WAVE =>
               ResolvedOption(CUSTOM_WAVE_FORMULA)
                  \in {FORMULA_SOUNDWAVE, FORMULA_RAMP, FORMULA_X}
         /\ ~RIsZero(ResolvedOption(FREQUENCY))
         /\ TruncToInt(ResolvedAmplitudeProduct) > 0 )
       => ResolvedOption(WAVE_TRANSFORMER) = "double"

\* C1 witness: a returned call whose duration * sample_rate is fractional.
C1_Witness ==
    /\ pc = "returned"
    /\ Len(sound_samples) > 0
    /\ RMul(duration, ResolvedOption(SAMPLE_RATE))[2] # 1

C4_Original ==
    (InCall /\ "bogus" \in DOMAIN get_merged_wave_options(
                                      self_wave_options, wave_specific_options))
        => (pc = "raised" /\ error = UNKNOWN_OPTION)

\* C4 amended: a mapping with an unrecognized key is accepted at
\* construction and by every generation call: no call fails with the
\* unknown-option error, every lookup of a recognized option gives what it
\* gives without the key, and only a lookup of an option that is itself
\* outside the enumeration raises.
C4_Amended ==
    LET merged == get_merged_wave_options(self_wave_options,
                                          wave_specific_options)
        known == [k \in DOMAIN merged \cap SoundWaveOption |-> merged[k]]
    IN  (InCall /\ "bogus" \in DOMAIN merged) =>
            /\ error # UNKNOWN_OPTION
            /\ \A k \in SoundWaveOption :
                  /\ ~get_wave_option_value(merged, k).raised
                  /\ get_wave_option_value(merged, k).value
                       = get_wave_option_value(known, k).value
            /\ get_wave_option_value(merged, "bogus").raised

\* C4 witness: a call on a mapping with the key "bogus" returned samples.
C4_Witness ==
    /\ pc = "returned"
    /\ "bogus" \in DOMAIN wave_options
    /\ Len(sound_samples) > 0

\* C5 as stated: effective_amplitude = floor(Amplitude * Adjustment),
\* min = max(-effective, default_min), max = min(effective, default_max),
\* range = abs(min) + abs(max).
C5_Original ==
    Captured =>
        LET effective == FloorToInt(ResolvedAmplitudeProduct)
        IN  /\ min_sample_value
                 = IntMax(-effective, DEFAULT_WAVE_OPTIONS[MIN_WAVE_VALUE][1])
            /\ max_sample_value
                 = IntMin(effective, DEFAULT_WAVE_OPTIONS[MAX_WAVE_VALUE][1])
            /\ sample_value_range
                 = Abs(min_sample_value) + Abs(max_sample_value)

\* C5 amended: effective_amplitude is Amplitude * Adjustment truncated
\* toward zero (floor only when the product is >= 0); min, max and range
\* as stated.
C5_Amended ==
    Captured =>
        LET effective == TruncToInt(ResolvedAmplitudeProduct)
        IN  /\ min_sample_value
                 = IntMax(-effective, DEFAULT_WAVE_OPTIONS[MIN_WAVE_VALUE][1])
            /\ max_sample_value
                 = IntMin(effective, DEFAULT_WAVE_OPTIONS[MAX_WAVE_VALUE][1])
            /\ sample_value_range
                 = Abs(min_sample_value) + Abs(max_sample_value)

\* C5 witness: a call whose amplitude product is negative and fractional.
C5_Witness ==
    /\ pc = "loop"
    /\ ResolvedAmplitudeProduct[1] < 0
    /\ ResolvedAmplitudeProduct[2] # 1

\* C6 as stated: with an effective amplitude of 0 and the identity
\* transformer, min = max = 0 and every shape returns floor(d * rate)
\* zeros without an error.  (Stated for a non-zero frequency and, for the
\* custom shape, a well-formed formula.)
C6_ZeroAmplitude ==
    ( /\ pc \in {"returned", "raised"}
      /\ sound_wave_type \in SoundWaveType
      /\ TruncToInt(ResolvedAmplitudeProduct) = 0
      /\ ResolvedOption(WAVE_TRANSFORMER) = "identity"
      /\ ~RIsZero(ResolvedOption(FREQUENCY))
      /\ sound_wave_type = CUSTOM_WAVE =>
            ResolvedOption(CUSTOM_WAVE_FORMULA)
               \in {FORMULA_SOUNDWAVE, FORMULA_RAMP, FORMULA_X} )
    => /\ pc = "returned"
       /\ min_sample_value = 0
       /\ max_sample_value = 0
       /\ Len(sound_samples)
            = FloorToInt(RMul(duration, ResolvedOption(SAMPLE_RATE)))
       /\ \A i \in DOMAIN sound_samples : sound_samples[i] = 0

\* C7 as stated: for every Frequency and SampleRate, samples_per_cycle is
\* computed without a division error, is an integer >= 1, and is 1
\* whenever SampleRate / Frequency is below 1.
C7_SamplesPerCycle ==
    InCall =>
        LET merged == get_merged_wave_options(self_wave_options,
                                              wave_specific_options)
            spc == get_samples_per_cycle(merged)
        IN  /\ ~spc.raised
            /\ spc.value >= 1
            /\ RLt(ResolvedOption(SAMPLE_RATE), ResolvedOption(FREQUENCY))
                  => spc.value = 1
            /\ pc \in {"loop", "returned"} => samples_per_cycle = spc.value

\* C8: every raw value goes through volume, limit, int(), transformer in
\* that order, and the transformer's result is the sample, not limited
\* again.
C8_NormalizerOrder ==
    \A i \in DOMAIN trace :
        LET t == trace[i]
            lo == FromInt(min_sample_value)
            hi == FromInt(max_sample_value)
        IN  /\ t.scaled = RMul(t.raw, ResolvedOption(VOLUME))
            /\ RGe(t.scaled, hi) => t.limited = hi
            /\ (RLt(t.scaled, hi) /\ RLe(t.scaled, lo)) => t.limited = lo
            /\ (RLt(t.scaled, hi) /\ RLt(lo, t.scaled)) => t.limited = t.scaled
            /\ Abs(t.truncated) * t.limited[2] <= Abs(t.limited[1])
            /\ Abs(t.limited[1]) < (Abs(t.truncated) + 1) * t.limited[2]
            /\ t.truncated > 0 => t.limited[1] > 0
            /\ t.truncated < 0 => t.limited[1] < 0
            /\ t.final = apply_transformer(ResolvedOption(WAVE_TRANSFORMER),
                                           t.truncated)
            /\ i \in DOMAIN sound_samples => sound_samples[i] = t.final

\* C8 witness: a raw value was scaled by a volume other than 1, limited to
\* a bound, and the transformer's result, outside the range, was appended.
C8_Witness ==
    \E i \in DOMAIN sound_samples :
        /\ trace[i].scaled # trace[i].raw
        /\ trace[i].limited # trace[i].scaled
        /\ trace[i].final # trace[i].truncated
        /\ sound_samples[i] < min_sample_value

\* C9 as stated: a call with an unsupported wave type fails with the
\* unknown-wave-type error before any sample is computed.
C9_UnsupportedShape ==
    (InCall /\ sound_wave_type \notin SoundWaveType) =>
        /\ pc = "raised"
        /\ error = UNKNOWN_WAVE_TYPE
        /\ trace = <<>>
        /\ sound_samples = <<>>

\* C10: the sawtooth raw value of frame i is
\* i + min - floor(i / range) * range; it rises by 1 from a frame to the
\* next within a ramp and drops by range at a ramp's end; the frequency
\* (hence samples_per_cycle) plays no part.
C10_Sawtooth ==
    sound_wave_type = SAWTOOTH_WAVE =>
        \A i \in DOMAIN trace :
            LET f == i - 1
                r == sample_value_range
            IN  /\ r # 0
                /\ trace[i].frame = f
                /\ trace[i].raw
                     = FromInt(f + min_sample_value - (f \div r) * r)
                /\ (i + 1) \in DOMAIN trace =>
                      trace[i + 1].raw[1]
                        = IF (f + 1) \div r = f \div r
                          THEN trace[i].raw[1] + 1
                          ELSE trace[i].raw[1] + 1 - r

\* C10 witness: a sawtooth whose ramp ended and restarted, with a
\* samples_per_cycle different from the value range.
C10_Witness ==
    /\ sound_wave_type = SAWTOOTH_WAVE
    /\ samples_per_cycle # sample_value_range
    /\ FREQUENCY \in DOMAIN wave_options
    /\ \E i \in DOMAIN trace :
          /\ (i + 1) \in DOMAIN trace
          /\ trace[i + 1].raw[1] < trace[i].raw[1]

\* C11: sine shape, identity transformer: the sample of frame i equals the
\* sample of frame i + samples_per_cycle, the phase
\* (i mod samples_per_cycle) / samples_per_cycle being the same for both.
C11_SinePeriodic ==
    ( /\ sound_wave_type = SIN_WAVE
      /\ Captured
      /\ ResolvedOption(WAVE_TRANSFORMER) = "identity" )
    => \A i \in DOMAIN trace :
          LET j == i + samples_per_cycle
          IN  /\ get_sample_frame_frequency(i - 1, wave_options)
                   = Rat((i - 1) % samples_per_cycle, samples_per_cycle)
              /\ j \in DOMAIN trace =>
                    /\ get_sample_frame_frequency(j - 1, wave_options)
                         = get_sample_frame_frequency(i - 1, wave_options)
                    /\ trace[j].raw = trace[i].raw
                    /\ trace[j].final = trace[i].final
                    /\ j \in DOMAIN sound_samples =>
                          sound_samples[j] = sound_samples[i]

\* C11 witness: a sine that ran past its first cycle and repeated a
\* non-zero sample that differs from its neighbour.
C11_Witness ==
    /\ sound_wave_type = SIN_WAVE
    /\ ResolvedOption(WAVE_TRANSFORMER) = "identity"
    /\ \E i \in DOMAIN sound_samples :
          /\ (i + samples_per_cycle) \in DOMAIN sound_samples
          /\ sound_samples[i] # 0
          /\ sound_samples[i] # sound_samples[i + 1]
          /\ sound_samples[i + samples_per_cycle] = sound_samples[i]

\* C14 as stated: for every Amplitude and AmplitudeAdjustment,
\* min_sample_value and max_sample_value lie within [-32768, 32767], and
\* with the identity transformer every sample fits the 16-bit array: the
\* append never raises OverflowError.
C14_ContainerBounds ==
    Captured =>
        /\ array_h_fits(min_sample_value)
        /\ array_h_fits(max_sample_value)
        /\ ResolvedOption(WAVE_TRANSFORMER) = "identity" =>
              /\ error # "OverflowError"
              /\ \A i \in DOMAIN trace : array_h_fits(trace[i].final)

\* C15 as stated: quadratic shape: the raw value is min_sample_value at
\* the cycle edge (x = 0), max_sample_value at the midpoint
\* (x = samples_per_cycle / 2) and within [min, max] in between.
C15_Original ==
    sound_wave_type = X2_WAVE =>
        \A i \in DOMAIN trace :
            LET x == trace[i].frame % samples_per_cycle
                raw == trace[i].raw
            IN  /\ x = 0 => raw = FromInt(min_sample_value)
                /\ 2 * x = samples_per_cycle => raw = FromInt(max_sample_value)
                /\ RLe(FromInt(min_sample_value), raw)
                /\ RLe(raw, FromInt(max_sample_value))

\* C15 amended: the raw value is max_sample_value at the cycle edge
\* (x = 0), min_sample_value at the midpoint (x = samples_per_cycle / 2),
\* the same at x and samples_per_cycle - x, and between the two bounds
\* for every x: within [min, max] when the effective amplitude is >= 0,
\* within [max, min] when it is negative.
C15_Amended ==
    sound_wave_type = X2_WAVE =>
        \A i \in DOMAIN trace :
            LET x == trace[i].frame % samples_per_cycle
                raw == trace[i].raw
                lo == FromInt(IntMin(min_sample_value, max_sample_value))
                hi == FromInt(IntMax(min_sample_value, max_sample_value))
            IN  /\ x = 0 => raw = FromInt(max_sample_value)
                /\ 2 * x = samples_per_cycle => raw = FromInt(min_sample_value)
                /\ RLe(lo, raw) /\ RLe(raw, hi)
                /\ TruncToInt(ResolvedAmplitudeProduct) >= 0 =>
                      lo = FromInt(min_sample_value)
                /\ \A j \in DOMAIN trace :
                      (trace[j].frame % samples_per_cycle) + x
                          = samples_per_cycle
                      => trace[j].raw = raw

\* C15 witness: a quadratic cycle of 4 frames went through its edge, a
\* value strictly between the bounds, and its midpoint.
C15_Witness ==
    /\ sound_wave_type = X2_WAVE
    /\ min_sample_value < max_sample_value
    /\ samples_per_cycle = 4
    /\ Len(trace) >= 4
    /\ trace[1].raw = FromInt(max_sample_value)
    /\ RLt(FromInt(min_sample_value), trace[2].raw)
    /\ RLt(trace[2].raw, FromInt(max_sample_value))
    /\ trace[3].raw = FromInt(min_sample_value)
    /\ trace[4].raw = trace[2].raw

\* The tokens the claim allows in a template: arithmetic operators,
\* parentheses, numbers and the five placeholders.
ArithmeticOnly(template) ==
    \A i \in DOMAIN template :
        template[i].kind \in {"+", "-", "*", "/", "(", ")", "num"}
                                \cup Placeholders

\* C16 as stated: custom shape: a template with anything but arithmetic
\* operators, numbers and the five placeholders is rejected with the
\* unsafe-formula error, is never evaluated, and the call returns no
\* samples.
C16_UnsafeFormula ==
    ( /\ Captured
      /\ sound_wave_type = CUSTOM_WAVE
      /\ ~ArithmeticOnly(ResolvedOption(CUSTOM_WAVE_FORMULA)) )
    => /\ pc # "returned"
       /\ trace = <<>>
       /\ sound_samples = <<>>
       /\ pc = "raised" => error = "UnsafeFormulaError"

\* The arguments of the call that returned channels_data[i].
CallArguments(i) ==
    <<channel_calls[i].duration, channel_calls[i].sound_wave_type,
      channel_calls[i].wave_specific_options>>

\* C12 as stated: with the random shape excluded, two calls with the same
\* arguments return the same sequence, whatever calls ran in between, and
\* no call changes the generator-level options.
C12_Deterministic ==
    /\ \A i \in DOMAIN channel_calls :
          channel_calls[i].generator_options = self_wave_options
    /\ \A i, j \in DOMAIN channel_calls :
          ( /\ CallArguments(i) = CallArguments(j)
            /\ channel_calls[i].sound_wave_type # RANDOM_WAVE )
          => channels_data[i] = channels_data[j]

\* C13 as stated: create_sound_file fails with the invalid-channel-data
\* error when the channel list is empty or the channels differ in length,
\* whichever is the shorter, and writes no mix of such channels.  (Stated
\* for a duration that gives a positive frame rate.)
C13_ChannelLengths ==
    ( /\ sound_file.called
      /\ sound_file.error \notin {"ZeroDivisionError", BAD_FRAME_RATE}
      /\ \/ channels_data = <<>>
         \/ \E i, j \in DOMAIN channels_data :
               Len(channels_data[i]) # Len(channels_data[j]) )
    => /\ sound_file.error = NO_CHANNELS
       /\ ~sound_file.written

====
